---- MODULE Spec2Model ----
(***************************************************************************)
(* Food Corner product mapping (src/src/fc_map_utils.py) as a state        *)
(* machine.  Text is modelled at character level: a string is a sequence   *)
(* of characters, a character is a one-element string; a character outside *)
(* ASCII is written by its code point ("U+017C" is z with dot above).      *)
(***************************************************************************)
EXTENDS Integers, Sequences, FiniteSets, TLC

VARIABLES
    invoice_df,     \* input: [cols : set of column names, rows : sequence of rows]
    canonical_df,   \* input: [cols : set of column names, rows : sequence of rows]
    threshold,      \* input: int
    key_col,        \* input: name of the key column
    pc,             \* position inside map_fc_products
    can_items,      \* normalized menu_item of every canonical row, in row order
    items,          \* unique invoice items (product_key_raw, product_norm, product_line)
    out,            \* list of records appended by the per-item loop
    out_df,         \* returned table, or NoTable
    outcome,        \* "running", "ok" or the exception raised
    prev,           \* result of an earlier run on the same tables (two-run comparisons)
    ntext,          \* text handed to normalize_text (normalization runs)
    npass,          \* number of normalize_text applications so far
    nhist,          \* the raw text and the texts obtained from it, oldest first
    ctext,          \* text handed to the category helpers (category runs)
    cats,           \* their results, or NoResult before the call
    mig_dir,        \* file names in db/migrations
    mig_pc,         \* position inside run_migrations.main
    files,          \* main's sorted list of migration files
    executed,       \* files executed in the open transaction, not yet committed
    committed,      \* files whose SQL is committed, in commit order
    printed,        \* lines printed by main
    conn            \* the database connection: "none", "open" or "closed"

mapVars == <<invoice_df, canonical_df, threshold, key_col, pc, can_items, items,
             out, out_df, outcome, prev>>
normVars == <<ntext, npass, nhist>>
catVars == <<ctext, cats>>
migVars == <<mig_dir, mig_pc, files, executed, committed, printed, conn>>

vars == <<invoice_df, canonical_df, threshold, key_col, pc, can_items, items,
          out, out_df, outcome, prev, normVars, catVars, migVars>>

NoResult == [infer |-> "<not run>", pos |-> "<not run>", allow |-> "<not run>"]

\* values of the variables a specification does not use
NormIdle == ntext = <<>> /\ npass = 0 /\ nhist = <<>>
CatIdle == ctext = <<>> /\ cats = NoResult
MigIdle ==
    /\ mig_dir = {}
    /\ mig_pc = "idle"
    /\ files = <<>>
    /\ executed = <<>>
    /\ committed = <<>>
    /\ printed = <<>>
    /\ conn = "none"

-----------------------------------------------------------------------------
(* Bounds of the model *)

\* longest raw text handed to normalize_text in the normalization runs
MaxLen == 3
\* most rows of an invoice table
MaxRows == 2
\* most rows of a canonical table
MaxCan == 2
\* most words of a text handed to the category helpers
MaxWords == 2

-----------------------------------------------------------------------------
(* Characters *)

UpperAscii == <<"A","B","C","D","E","F","G","H","I","J","K","L","M",
                "N","O","P","Q","R","S","T","U","V","W","X","Y","Z">>
LowerAscii == <<"a","b","c","d","e","f","g","h","i","j","k","l","m",
                "n","o","p","q","r","s","t","u","v","w","x","y","z">>
Digits == <<"0","1","2","3","4","5","6","7","8","9">>

Range(f) == {f[k] : k \in DOMAIN f}

IndexOf(seq, c) == CHOOSE k \in DOMAIN seq : seq[k] = c

\* str.lower() on one character: ASCII capitals and the capitals with
\* diacritics used here (U+017B -> U+017C, U+00D3 -> U+00F3, U+0141 -> U+0142)
LowerChar(c) ==
    IF c \in Range(UpperAscii) THEN LowerAscii[IndexOf(UpperAscii, c)]
    ELSE IF c = "U+017B" THEN "U+017C"
    ELSE IF c = "U+00D3" THEN "U+00F3"
    ELSE IF c = "U+0141" THEN "U+0142"
    ELSE c

\* unidecode on one character: ASCII is kept, a letter with a diacritic gets
\* its base letter, the euro sign becomes the three capitals EUR, the
\* no-break space becomes a space
Translit(c) ==
    IF c = "U+017C" THEN <<"z">>
    ELSE IF c = "U+017B" THEN <<"Z">>
    ELSE IF c = "U+00F3" THEN <<"o">>
    ELSE IF c = "U+00D3" THEN <<"O">>
    ELSE IF c = "U+0142" THEN <<"l">>
    ELSE IF c = "U+0141" THEN <<"L">>
    ELSE IF c = "U+20AC" THEN <<"E","U","R">>
    ELSE IF c = "U+00A0" THEN <<" ">>
    ELSE <<c>>

\* \s of the regular expressions, on transliterated (ASCII) text
IsSpace(c) == c \in {" ", "\t", "\n", "\r"}

\* the class [a-z0-9\s\-\+]
Allowed(c) ==
    c \in Range(LowerAscii) \/ c \in Range(Digits) \/ IsSpace(c) \/ c \in {"-", "+"}

-----------------------------------------------------------------------------
(* normalize_text, stage by stage *)

str_lower(s) == [k \in 1..Len(s) |-> LowerChar(s[k])]

RECURSIVE unidecode(_)
unidecode(s) == IF s = <<>> THEN <<>> ELSE Translit(Head(s)) \o unidecode(Tail(s))

\* .str.replace(r"[^a-z0-9\s\-\+]", " ")
replace_disallowed(s) == [k \in 1..Len(s) |-> IF Allowed(s[k]) THEN s[k] ELSE " "]

\* .str.replace(r"\s+", " "): every maximal run of whitespace becomes one space
RECURSIVE squeeze_from(_, _)
squeeze_from(s, k) ==
    IF k > Len(s) THEN <<>>
    ELSE IF IsSpace(s[k])
         THEN (IF k > 1 /\ IsSpace(s[k-1]) THEN <<>> ELSE <<" ">>) \o squeeze_from(s, k+1)
         ELSE <<s[k]>> \o squeeze_from(s, k+1)

squeeze_spaces(s) == squeeze_from(s, 1)

\* .str.strip()
RECURSIVE lstrip(_)
lstrip(s) == IF s # <<>> /\ IsSpace(Head(s)) THEN lstrip(Tail(s)) ELSE s

RECURSIVE rstrip(_)
rstrip(s) ==
    IF s # <<>> /\ IsSpace(s[Len(s)]) THEN rstrip(SubSeq(s, 1, Len(s)-1)) ELSE s

str_strip(s) == lstrip(rstrip(s))

\* a variant that trims before the replacement instead of after it
normalize_text_strip_first(s) ==
    squeeze_spaces(replace_disallowed(str_strip(unidecode(str_lower(s)))))

normalize_text(s) ==
    str_strip(squeeze_spaces(replace_disallowed(unidecode(str_lower(s)))))

-----------------------------------------------------------------------------
(* Regular expressions over normalized text *)

\* \w on normalized text
IsWordChar(c) == c \in Range(LowerAscii) \/ c \in Range(Digits) \/ c = "_"

\* \b between t[k-1] and t[k], for k in 1..Len(t)+1
WordBoundary(t, k) ==
    LET before == k > 1 /\ IsWordChar(t[k-1])
        after  == k <= Len(t) /\ IsWordChar(t[k])
    IN  before # after

LitAt(t, k, lit) ==
    /\ k + Len(lit) - 1 <= Len(t)
    /\ \A j \in 1..Len(lit) : t[k+j-1] = lit[j]

\* re.search of the pattern \b lit (\b)
re_search(p, t) ==
    \E k \in 1..Len(t) :
        /\ WordBoundary(t, k)
        /\ LitAt(t, k, p.lit)
        /\ p.eow => WordBoundary(t, k + Len(p.lit))

hits_any(patterns, text) == \E n \in DOMAIN patterns : re_search(patterns[n], text)

\* POS_PATTERNS of map_fc_products, every alternative spelled out as \b literal
\* (eow: a closing \b).  stem\w*\b matches exactly when \bstem does.
POS_PATTERNS ==
    <<
       [lit |-> <<"h","o","t","d","o","g">>, eow |-> TRUE],
       [lit |-> <<"h","o","t"," ","d","o","g">>, eow |-> TRUE],
       [lit |-> <<"h","o","t","-","d","o","g">>, eow |-> TRUE],
       [lit |-> <<"t","o","s","t">>, eow |-> TRUE],
       [lit |-> <<"t","o","s","t","y">>, eow |-> TRUE],
       [lit |-> <<"t","o","a","s","t">>, eow |-> TRUE],
       [lit |-> <<"p","a","n","i","n","i">>, eow |-> TRUE],
       [lit |-> <<"f","r","y","t","k">>, eow |-> FALSE],
       [lit |-> <<"n","u","g","g","e","t">>, eow |-> FALSE],
       [lit |-> <<"s","t","r","i","p">>, eow |-> TRUE],
       [lit |-> <<"s","t","r","i","p","s">>, eow |-> TRUE],
       [lit |-> <<"f","i","l","e","c","i","k">>, eow |-> FALSE],
       [lit |-> <<"k","u","r","c","z","a","k","e","r">>, eow |-> TRUE] >>

\* NEG_PATTERNS of map_fc_products without its filet...g pattern (FiletWeight).
\* The rule is applied to normalized text, which holds no diacritics, so the
\* alternatives with U+017C (mro.on) and U+00F3 (ps.w) can never match.
NEG_PATTERNS_LIT ==
    <<
       [lit |-> <<"m","r","o","z","o","n">>, eow |-> FALSE],
       [lit |-> <<"p","l","a","s","t","r","y">>, eow |-> TRUE],
       [lit |-> <<"l","i","s","n","e","r">>, eow |-> TRUE],
       [lit |-> <<"d","u","d","a">>, eow |-> TRUE],
       [lit |-> <<"p","e","d","i","g","r","e","e">>, eow |-> TRUE],
       [lit |-> <<"r","e","n","o">>, eow |-> TRUE],
       [lit |-> <<"d","u","p","l","o">>, eow |-> TRUE],
       [lit |-> <<"s","n","i","c","k","e","r","s">>, eow |-> TRUE],
       [lit |-> <<"p","i","e","s">>, eow |-> TRUE],
       [lit |-> <<"p","s","o","w">>, eow |-> TRUE],
       [lit |-> <<"k","o","t">>, eow |-> TRUE] >>

\* hard negatives: frozen / packaged
NEG_FROZEN_PACK ==
    <<
       [lit |-> <<"m","r","o","z">>, eow |-> FALSE],
       [lit |-> <<"m","r","o","z","o","n","a">>, eow |-> FALSE],
       [lit |-> <<"m","r","o","z","o","n","e">>, eow |-> FALSE],
       [lit |-> <<"z","a","m","r","o","z">>, eow |-> FALSE],
       [lit |-> <<"g","l","e","b","o","k","o">>, eow |-> TRUE],
       [lit |-> <<"z","g","r","z","e","w">>, eow |-> FALSE],
       [lit |-> <<"k","a","r","t","o","n">>, eow |-> TRUE],
       [lit |-> <<"p","a","c","z","k","a">>, eow |-> TRUE],
       [lit |-> <<"k","o","n","s","e","r","w">>, eow |-> FALSE],
       [lit |-> <<"s","l","o","i","k">>, eow |-> TRUE] >>

\* obvious non-FC product_line cues
\* NEG_COFFEE; "napoj( energetyczny|)" and "red ?bull" are written out as
\* their two alternatives each
NEG_COFFEE ==
    <<
       [lit |-> <<"n","a","p","o","j"," ","e","n","e","r","g","e","t","y","c","z","n","y">>, eow |-> TRUE],
       [lit |-> <<"n","a","p","o","j">>, eow |-> TRUE],
       [lit |-> <<"e","n","e","r","g","y">>, eow |-> TRUE],
       [lit |-> <<"m","o","n","s","t","e","r">>, eow |-> TRUE],
       [lit |-> <<"r","e","d"," ","b","u","l","l">>, eow |-> TRUE],
       [lit |-> <<"r","e","d","b","u","l","l">>, eow |-> TRUE],
       [lit |-> <<"o","s","h","e","e">>, eow |-> TRUE],
       [lit |-> <<"4","m","o","v","e">>, eow |-> TRUE],
       [lit |-> <<"p","e","p","s","i">>, eow |-> TRUE],
       [lit |-> <<"c","o","c","a">>, eow |-> TRUE],
       [lit |-> <<"c","o","l","a">>, eow |-> TRUE],
       [lit |-> <<"f","a","n","t","a">>, eow |-> TRUE],
       [lit |-> <<"s","p","r","i","t","e">>, eow |-> TRUE] >>

LINES_DENY ==
    <<
       [lit |-> <<"n","a","p","o","j">>, eow |-> TRUE],
       [lit |-> <<"p","i","w","o">>, eow |-> TRUE],
       [lit |-> <<"p","a","p","i","e","r","o","s">>, eow |-> FALSE],
       [lit |-> <<"l","u","f","k","a">>, eow |-> TRUE],
       [lit |-> <<"b","u","t","e","l","k","a">>, eow |-> TRUE] >>

\* product_line allow patterns, in the dict's insertion order
LINES_ALLOW ==
    <<
       [cat |-> "Pizza", pats |-> <<
           [lit |-> <<"p","i","z","z","a">>, eow |-> TRUE],
           [lit |-> <<"p","i","n","s","a">>, eow |-> TRUE] >>],
       [cat |-> "Hot Dog", pats |-> <<
           [lit |-> <<"h","o","t","d","o","g">>, eow |-> TRUE],
           [lit |-> <<"h","o","t"," ","d","o","g">>, eow |-> TRUE],
           [lit |-> <<"h","o","t","-","d","o","g">>, eow |-> TRUE],
           [lit |-> <<"h","o","t"," ","-","d","o","g">>, eow |-> TRUE],
           [lit |-> <<"h","o","t","-"," ","d","o","g">>, eow |-> TRUE],
           [lit |-> <<"h","o","t"," ","-"," ","d","o","g">>, eow |-> TRUE],
           [lit |-> <<"h","o","t","d","o","g">>, eow |-> TRUE],
           [lit |-> <<"h","d">>, eow |-> TRUE] >>],
       [cat |-> "Burger", pats |-> <<
           [lit |-> <<"b","u","r","g","e","r">>, eow |-> TRUE] >>],
       [cat |-> "Wrap", pats |-> <<
           [lit |-> <<"w","r","a","p">>, eow |-> TRUE] >>],
       [cat |-> "Panini", pats |-> <<
           [lit |-> <<"p","a","n","i","n","i">>, eow |-> TRUE],
           [lit |-> <<"b","a","g","i","e","t">>, eow |-> FALSE] >>],
       [cat |-> "Tosty", pats |-> <<
           [lit |-> <<"t","o","s","t","y">>, eow |-> TRUE],
           [lit |-> <<"t","o","s","t">>, eow |-> TRUE] >>],
       [cat |-> "Kanapki", pats |-> <<
           [lit |-> <<"k","a","n","a","p","k">>, eow |-> FALSE],
           [lit |-> <<"s","a","n","d","w","i","c","h">>, eow |-> FALSE],
           [lit |-> <<"s","a","n","d","w">>, eow |-> FALSE] >>],
       [cat |-> "Zapiekanka", pats |-> <<
           [lit |-> <<"z","a","p","i","e","k","a","n","k">>, eow |-> FALSE] >>],
       [cat |-> "Sa(U+0142)atki", pats |-> <<
           [lit |-> <<"s","a","l","a","t","k">>, eow |-> FALSE],
           [lit |-> <<"s","a","l","a","t">>, eow |-> FALSE],
           [lit |-> <<"s","a","l","a","d">>, eow |-> FALSE] >>],
       [cat |-> "Frytki/Box", pats |-> <<
           [lit |-> <<"f","r","y","t","k","i">>, eow |-> TRUE],
           [lit |-> <<"c","h","r","u","p","b","o","x">>, eow |-> TRUE],
           [lit |-> <<"b","o","x">>, eow |-> TRUE],
           [lit |-> <<"n","u","g","g","e","t">>, eow |-> FALSE],
           [lit |-> <<"s","t","r","i","p">>, eow |-> FALSE],
           [lit |-> <<"f","i","l","e","c","i","k">>, eow |-> FALSE],
           [lit |-> <<"f","i","l","e","t">>, eow |-> TRUE] >>],
       [cat |-> "Kawa", pats |-> <<
           [lit |-> <<"k","a","w","a">>, eow |-> TRUE],
           [lit |-> <<"e","s","p","r","e","s","s","o">>, eow |-> TRUE],
           [lit |-> <<"l","a","t","t","e">>, eow |-> TRUE],
           [lit |-> <<"a","m","e","r","i","c","a","n","o">>, eow |-> TRUE],
           [lit |-> <<"c","a","p","p","u","c","c","i","n","o">>, eow |-> TRUE] >>] >>

\* positive stems per super-category, in the dict's insertion order
POS ==
    <<
       [cat |-> "Pizza", pats |-> <<
           [lit |-> <<"p","i","z","z","a">>, eow |-> TRUE],
           [lit |-> <<"p","i","n","s","a">>, eow |-> TRUE],
           [lit |-> <<"p","i","e","c">>, eow |-> FALSE],
           [lit |-> <<"p","i","e","c","z">>, eow |-> FALSE],
           [lit |-> <<"n","a"," ","w","y","n","o","s">>, eow |-> TRUE],
           [lit |-> <<"s","l","i","c","e">>, eow |-> TRUE],
           [lit |-> <<"k","a","w","a","l","e","k">>, eow |-> TRUE] >>],
       [cat |-> "Hot Dog", pats |-> <<
           [lit |-> <<"h","o","t","d","o","g">>, eow |-> TRUE],
           [lit |-> <<"h","o","t"," ","d","o","g">>, eow |-> TRUE],
           [lit |-> <<"h","o","t","-","d","o","g">>, eow |-> TRUE],
           [lit |-> <<"h","o","t"," ","-","d","o","g">>, eow |-> TRUE],
           [lit |-> <<"h","o","t","-"," ","d","o","g">>, eow |-> TRUE],
           [lit |-> <<"h","o","t"," ","-"," ","d","o","g">>, eow |-> TRUE],
           [lit |-> <<"h","o","t","d","o","g">>, eow |-> TRUE],
           [lit |-> <<"h","d">>, eow |-> TRUE] >>],
       [cat |-> "Burger", pats |-> <<
           [lit |-> <<"b","u","r","g","e","r">>, eow |-> TRUE] >>],
       [cat |-> "Wrap", pats |-> <<
           [lit |-> <<"w","r","a","p">>, eow |-> TRUE] >>],
       [cat |-> "Panini", pats |-> <<
           [lit |-> <<"p","a","n","i","n","i">>, eow |-> TRUE],
           [lit |-> <<"b","a","g","i","e","t">>, eow |-> FALSE] >>],
       [cat |-> "Tosty", pats |-> <<
           [lit |-> <<"t","o","s","t","y">>, eow |-> TRUE],
           [lit |-> <<"t","o","s","t">>, eow |-> TRUE] >>],
       [cat |-> "Kanapki", pats |-> <<
           [lit |-> <<"k","a","n","a","p","k">>, eow |-> FALSE],
           [lit |-> <<"s","a","n","d","w","i","c","h">>, eow |-> FALSE],
           [lit |-> <<"s","a","n","d","w">>, eow |-> FALSE] >>],
       [cat |-> "Zapiekanka", pats |-> <<
           [lit |-> <<"z","a","p","i","e","k","a","n","k">>, eow |-> FALSE] >>],
       [cat |-> "Sa(U+0142)atki", pats |-> <<
           [lit |-> <<"s","a","l","a","t","k">>, eow |-> FALSE],
           [lit |-> <<"s","a","l","a","t">>, eow |-> FALSE],
           [lit |-> <<"s","a","l","a","d">>, eow |-> FALSE] >>],
       [cat |-> "Frytki/Box", pats |-> <<
           [lit |-> <<"f","r","y","t","k","i">>, eow |-> TRUE],
           [lit |-> <<"c","h","r","u","p","b","o","x">>, eow |-> TRUE],
           [lit |-> <<"b","o","x">>, eow |-> TRUE],
           [lit |-> <<"n","u","g","g","e","t">>, eow |-> FALSE],
           [lit |-> <<"s","t","r","i","p">>, eow |-> FALSE],
           [lit |-> <<"f","i","l","e","c","i","k">>, eow |-> FALSE],
           [lit |-> <<"f","i","l","e","t">>, eow |-> TRUE] >>],
       [cat |-> "Kawa", pats |-> <<
           [lit |-> <<"k","a","w","a">>, eow |-> TRUE],
           [lit |-> <<"e","s","p","r","e","s","s","o">>, eow |-> TRUE],
           [lit |-> <<"a","m","e","r","i","c","a","n","o">>, eow |-> TRUE],
           [lit |-> <<"l","a","t","t","e">>, eow |-> TRUE],
           [lit |-> <<"c","a","p","p","u","c","c","i","n","o">>, eow |-> TRUE],
           [lit |-> <<"f","l","a","t"," ","w","h","i","t","e">>, eow |-> TRUE] >>] >>

\* the if-chain of infer_super_cat, one entry per returned category, in order
INFER_CHAIN ==
    <<
       [cat |-> "Pizza", pats |-> <<
           [lit |-> <<"p","i","z","z","a">>, eow |-> TRUE],
           [lit |-> <<"p","i","n","s","a">>, eow |-> TRUE] >>],
       [cat |-> "Hot Dog", pats |-> <<
           [lit |-> <<"h","o","t","d","o","g">>, eow |-> TRUE],
           [lit |-> <<"h","o","t"," ","d","o","g">>, eow |-> TRUE],
           [lit |-> <<"h","o","t","-","d","o","g">>, eow |-> TRUE],
           [lit |-> <<"h","o","t"," ","-","d","o","g">>, eow |-> TRUE],
           [lit |-> <<"h","o","t","-"," ","d","o","g">>, eow |-> TRUE],
           [lit |-> <<"h","o","t"," ","-"," ","d","o","g">>, eow |-> TRUE],
           [lit |-> <<"h","o","t","d","o","g">>, eow |-> TRUE],
           [lit |-> <<"h","d">>, eow |-> TRUE] >>],
       [cat |-> "Burger", pats |-> <<
           [lit |-> <<"b","u","r","g","e","r">>, eow |-> TRUE] >>],
       [cat |-> "Wrap", pats |-> <<
           [lit |-> <<"w","r","a","p">>, eow |-> TRUE] >>],
       [cat |-> "Panini", pats |-> <<
           [lit |-> <<"p","a","n","i","n","i">>, eow |-> TRUE],
           [lit |-> <<"b","a","g","i","e","t">>, eow |-> FALSE] >>],
       [cat |-> "Tosty", pats |-> <<
           [lit |-> <<"t","o","s","t","y">>, eow |-> TRUE],
           [lit |-> <<"t","o","s","t">>, eow |-> TRUE] >>],
       [cat |-> "Kanapki", pats |-> <<
           [lit |-> <<"k","a","n","a","p","k">>, eow |-> FALSE],
           [lit |-> <<"s","a","n","d","w","i","c","h">>, eow |-> FALSE],
           [lit |-> <<"s","a","n","d","w">>, eow |-> FALSE] >>],
       [cat |-> "Zapiekanka", pats |-> <<
           [lit |-> <<"z","a","p","i","e","k","a","n","k">>, eow |-> FALSE] >>],
       [cat |-> "Sa(U+0142)atki", pats |-> <<
           [lit |-> <<"s","a","l","a","t","k">>, eow |-> FALSE],
           [lit |-> <<"s","a","l","a","t">>, eow |-> FALSE],
           [lit |-> <<"s","a","l","a","d">>, eow |-> FALSE] >>],
       [cat |-> "Frytki/Box", pats |-> <<
           [lit |-> <<"f","r","y","t","k","i">>, eow |-> TRUE],
           [lit |-> <<"c","h","r","u","p","b","o","x">>, eow |-> TRUE],
           [lit |-> <<"b","o","x">>, eow |-> TRUE],
           [lit |-> <<"n","u","g","g","e","t">>, eow |-> FALSE],
           [lit |-> <<"s","t","r","i","p">>, eow |-> FALSE],
           [lit |-> <<"f","i","l","e","c","i","k">>, eow |-> FALSE],
           [lit |-> <<"f","i","l","e","t">>, eow |-> TRUE] >>],
       [cat |-> "Kawa", pats |-> <<
           [lit |-> <<"k","a","w","a">>, eow |-> TRUE],
           [lit |-> <<"e","s","p","r","e","s","s","o">>, eow |-> TRUE],
           [lit |-> <<"a","m","e","r","i","c","a","n","o">>, eow |-> TRUE],
           [lit |-> <<"l","a","t","t","e">>, eow |-> TRUE],
           [lit |-> <<"c","a","p","p","u","c","c","i","n","o">>, eow |-> TRUE],
           [lit |-> <<"f","l","a","t"," ","w","h","i","t","e">>, eow |-> TRUE] >>] >>

\* r"\bfilet\b.*\b\d{2,3}\s?g\b" of NEG_PATTERNS
FiletWeight(t) ==
    \E k \in 1..Len(t) :
        /\ WordBoundary(t, k)
        /\ LitAt(t, k, <<"f","i","l","e","t">>)
        /\ WordBoundary(t, k + 5)
        /\ \E m \in (k+5)..Len(t), n \in {2, 3} :
              /\ WordBoundary(t, m)
              /\ m + n <= Len(t)
              /\ \A j \in 0..(n-1) : t[m+j] \in Range(Digits)
              /\ \/ t[m+n] = "g" /\ WordBoundary(t, m+n+1)
                 \/ /\ m + n + 1 <= Len(t)
                    /\ IsSpace(t[m+n])
                    /\ t[m+n+1] = "g"
                    /\ WordBoundary(t, m+n+2)

\* NoText is the value of a missing product_line (not a str)
NoText == <<"<NA>">>

rule_is_fc(product_line_norm) ==
    /\ product_line_norm # NoText
    /\ hits_any(POS_PATTERNS, product_line_norm)
    /\ ~ (hits_any(NEG_PATTERNS_LIT, product_line_norm) \/ FiletWeight(product_line_norm))

NoCat == "<None>"

\* a variant that lets the last matching entry win
last_hit_category(text, cat2pats) ==
    IF \E n \in DOMAIN cat2pats : hits_any(cat2pats[n].pats, text)
    THEN cat2pats[CHOOSE n \in DOMAIN cat2pats :
                     /\ hits_any(cat2pats[n].pats, text)
                     /\ \A m \in (n+1)..Len(cat2pats) : ~ hits_any(cat2pats[m].pats, text)].cat
    ELSE NoCat

first_hit_category(text, cat2pats) ==
    IF \E n \in DOMAIN cat2pats : hits_any(cat2pats[n].pats, text)
    THEN cat2pats[CHOOSE n \in DOMAIN cat2pats :
                     /\ hits_any(cat2pats[n].pats, text)
                     /\ \A m \in 1..(n-1) : ~ hits_any(cat2pats[m].pats, text)].cat
    ELSE NoCat

infer_super_cat(text) == first_hit_category(normalize_text(text), INFER_CHAIN)

FC_CATEGORIES ==
    {"Hot Dog", "Tosty", "Panini", "Frytki/Box", "Zupy",
     "Makaron", "Pizza", "Pinsa", "Sa(U+0142)atki"}

-----------------------------------------------------------------------------
(* rapidfuzz: fuzz.token_set_ratio as called by process.extractOne with no *)
(* processor and no score_cutoff.  A score is the exact fraction n/d of    *)
(* the float the library computes; int(score) is n \div d.                  *)

Max(a, b) == IF a >= b THEN a ELSE b

\* str.split(): the maximal runs of non-whitespace
RECURSIVE split_from(_, _, _)
split_from(s, k, cur) ==
    IF k > Len(s) THEN (IF cur = <<>> THEN {} ELSE {cur})
    ELSE IF IsSpace(s[k])
         THEN (IF cur = <<>> THEN {} ELSE {cur}) \cup split_from(s, k+1, <<>>)
         ELSE split_from(s, k+1, Append(cur, s[k]))

TokenSet(s) == split_from(s, 1, <<>>)

\* code point order of the characters of normalized text
CharOrder == <<" ", "+", "-">> \o Digits \o LowerAscii

RECURSIVE LexLess(_, _)
LexLess(a, b) ==
    IF b = <<>> THEN FALSE
    ELSE IF a = <<>> THEN TRUE
    ELSE IF Head(a) = Head(b) THEN LexLess(Tail(a), Tail(b))
    ELSE IndexOf(CharOrder, Head(a)) < IndexOf(CharOrder, Head(b))

\* " ".join(sorted(tokens))
RECURSIVE SortedJoin(_)
SortedJoin(tokens) ==
    IF tokens = {} THEN <<>>
    ELSE LET first == CHOOSE x \in tokens : \A y \in tokens \ {x} : LexLess(x, y)
             rest  == SortedJoin(tokens \ {first})
         IN  IF rest = <<>> THEN first ELSE first \o <<" ">> \o rest

\* one row of the longest-common-subsequence table: row[j+1] is the length
\* for the prefix of b of length j
RECURSIVE LcsRow(_, _, _, _, _)
LcsRow(c, b, prevRow, cur, j) ==
    IF Len(cur) > Len(b) THEN cur
    ELSE LcsRow(c, b, prevRow,
                Append(cur, IF c = b[j] THEN prevRow[j] + 1 ELSE Max(prevRow[j+1], cur[j])),
                j + 1)

RECURSIVE LcsFrom(_, _, _, _)
LcsFrom(a, b, k, row) ==
    IF k > Len(a) THEN row[Len(b) + 1]
    ELSE LcsFrom(a, b, k + 1, LcsRow(a[k], b, row, <<0>>, 1))

\* Indel distance: insertions and deletions turning a into b
indel_distance(a, b) ==
    Len(a) + Len(b) - 2 * LcsFrom(a, b, 1, [j \in 1..(Len(b)+1) |-> 0])

\* 100 - 100 * dist / lensum, as a fraction
norm_distance(dist, lensum) ==
    IF lensum > 0 THEN [n |-> 100 * (lensum - dist), d |-> lensum] ELSE [n |-> 100, d |-> 1]

ScoreLess(x, y) == x.n * y.d < y.n * x.d

ScoreMax(x, y) == IF ScoreLess(x, y) THEN y ELSE x

token_set_ratio(s1, s2) ==
    LET tokens_a == TokenSet(s1)
        tokens_b == TokenSet(s2)
        intersect == tokens_a \cap tokens_b
        diff_ab == tokens_a \ tokens_b
        diff_ba == tokens_b \ tokens_a
        diff_ab_joined == SortedJoin(diff_ab)
        diff_ba_joined == SortedJoin(diff_ba)
        ab_len == Len(diff_ab_joined)
        ba_len == Len(diff_ba_joined)
        sect_len == Len(SortedJoin(intersect))
        sep == IF sect_len # 0 THEN 1 ELSE 0
        sect_ab_len == sect_len + sep + ab_len
        sect_ba_len == sect_len + sep + ba_len
        result == norm_distance(indel_distance(diff_ab_joined, diff_ba_joined),
                                sect_ab_len + sect_ba_len)
        sect_ab_ratio == norm_distance(sep + ab_len, sect_len + sect_ab_len)
        sect_ba_ratio == norm_distance(sep + ba_len, sect_len + sect_ba_len)
    IN  IF tokens_a = {} \/ tokens_b = {} THEN [n |-> 0, d |-> 1]
        ELSE IF intersect # {} /\ (diff_ab = {} \/ diff_ba = {}) THEN [n |-> 100, d |-> 1]
        ELSE IF sect_len = 0 THEN result
        ELSE ScoreMax(result, ScoreMax(sect_ab_ratio, sect_ba_ratio))

-----------------------------------------------------------------------------
(* Input tables *)

\* a missing value (None / NaN) in a column of raw text
NaN == <<"<NaN>">>

\* raw product_line texts: "Hot-Dog", "Frytki mro(U+017C)one", "Burger", "Zupa"
RAW_HOT_DOG == <<"H","o","t","-","D","o","g">>
RAW_FRYTKI_MROZONE == <<"F","r","y","t","k","i"," ","m","r","o","U+017C","o","n","e">>
RAW_BURGER == <<"B","u","r","g","e","r">>
RAW_ZUPA == <<"Z","u","p","a">>
RAW_BURGER_FRYTKI == <<"B","u","r","g","e","r"," ","+"," ","F","r","y","t","k","i">>
RAW_BURGER_UPPER == <<"B","U","R","G","E","R">>
RAW_MONSTER_ESPRESSO == <<"M","o","n","s","t","e","r"," ","E","s","p","r","e","s","s","o">>
RAW_DOTS == <<".",".",".">>
RAW_ESPRESSO == <<"E","s","p","r","e","s","s","o">>
RAW_KAWA == <<"K","a","w","a">>

LineValues == {NaN, RAW_HOT_DOG, RAW_FRYTKI_MROZONE, RAW_BURGER, RAW_ZUPA}
NameValues == {NaN, RAW_BURGER}
SecondaryLineValues == {NaN, RAW_HOT_DOG}

\* rows of the canonical catalog
CanonicalRows ==
    { [menu_item |-> RAW_BURGER,        menu_category |-> "Burger"],
      [menu_item |-> RAW_BURGER_FRYTKI, menu_category |-> "Frytki/Box"],
      [menu_item |-> RAW_ZUPA,          menu_category |-> "Zupy"] }

Thresholds == {0, 70}

\* key values of the line-keyed runs: two spellings of one product, a coffee
\* drink of an energy-drink brand, a text that normalizes to nothing, and a
\* product the rule accepts
LineKeyValues ==
    {NaN, RAW_BURGER, RAW_BURGER_UPPER, RAW_MONSTER_ESPRESSO, RAW_DOTS, RAW_HOT_DOG}

LineCanonicalRows ==
    { [menu_item |-> RAW_ESPRESSO, menu_category |-> "Kawa"],
      [menu_item |-> RAW_KAWA,     menu_category |-> "Kawa"],
      [menu_item |-> RAW_BURGER,   menu_category |-> "Burger"] }

\* threshold: int = 70
DefaultThreshold == 70

SeqsUpTo(S, n) == UNION {[1..m -> S] : m \in 0..n}

InvoiceTables ==
    {[cols |-> {"product_line"}, rows |-> r] :
        r \in SeqsUpTo([product_line : LineValues], MaxRows)}
    \cup
    {[cols |-> {"product_name", "product_line"}, rows |-> r] :
        r \in SeqsUpTo([product_name : NameValues, product_line : SecondaryLineValues], MaxRows)}
    \cup
    {[cols |-> {"product_name"}, rows |-> r] :
        r \in SeqsUpTo([product_name : NameValues], MaxRows)}

CanonicalTables ==
    {[cols |-> {"menu_item", "menu_category"}, rows |-> r] : r \in SeqsUpTo(CanonicalRows, MaxCan)}
    \cup
    {[cols |-> c, rows |-> <<>>] : c \in {{"menu_item"}, {"menu_category"}, {}}}

-----------------------------------------------------------------------------
(* normalize_text, rule_is_fc and token_set_ratio, evaluated once for the   *)
(* texts that occur in the input tables                                    *)

RawTexts ==
    (LineValues \cup NameValues \cup SecondaryLineValues \cup LineKeyValues
        \cup {r.menu_item : r \in CanonicalRows \cup LineCanonicalRows}) \ {NaN}

NormOf == [t \in RawTexts |-> normalize_text(t)]

\* "" stands in the loop for a product_line that is not a str
NormTexts == {NormOf[t] : t \in RawTexts} \cup {<<>>}

RuleOf == [t \in NormTexts |-> rule_is_fc(t)]

ScoreOf == [p \in NormTexts \X NormTexts |-> token_set_ratio(p[1], p[2])]

\* the scan of process.extractOne: best is [score, idx], idx = 0 before any choice
RECURSIVE extract_scan(_, _, _, _)
extract_scan(query, choices, k, best) ==
    IF k > Len(choices) THEN best
    ELSE LET score == ScoreOf[<<query, choices[k]>>]
         IN  IF best.idx = 0 \/ ScoreLess(best.score, score)
             THEN extract_scan(query, choices, k + 1, [score |-> score, idx |-> k])
             ELSE extract_scan(query, choices, k + 1, best)

\* a variant of the scan that lets a later choice with an equal score win
RECURSIVE extract_scan_last(_, _, _, _)
extract_scan_last(query, choices, k, best) ==
    IF k > Len(choices) THEN best
    ELSE LET score == ScoreOf[<<query, choices[k]>>]
         IN  IF best.idx = 0 \/ ~ ScoreLess(score, best.score)
             THEN extract_scan_last(query, choices, k + 1, [score |-> score, idx |-> k])
             ELSE extract_scan_last(query, choices, k + 1, best)

extractOne_last(query, choices) ==
    extract_scan_last(query, choices, 1, [score |-> [n |-> 0, d |-> 1], idx |-> 0])

\* a variant that reports no match when the best score is 0
extractOne_cutoff(query, choices) ==
    LET best == extract_scan(query, choices, 1, [score |-> [n |-> 0, d |-> 1], idx |-> 0])
    IN  IF best.score.n = 0 THEN [score |-> [n |-> 0, d |-> 1], idx |-> 0] ELSE best

\* process.extractOne(nm, can_items, scorer=fuzz.token_set_ratio): the first
\* choice with the highest score, as [score, idx] (idx counts rows from 1)
extractOne(query, choices) ==
    extract_scan(query, choices, 1, [score |-> [n |-> 0, d |-> 1], idx |-> 0])

-----------------------------------------------------------------------------
(* map_fc_products *)

NoTable == <<"<no table>">>
NoItem == <<"<None>">>
NoRun == [threshold |-> -1, outcome |-> "none", out_df |-> NoTable]

\* a canonical check that looks for menu_item only
canonical_ok_item_only(can) == "menu_item" \in can.cols

\* req_cols.issubset(can.columns)
canonical_ok(can) == {"menu_item", "menu_category"} \subseteq can.cols

\* a variant that drops a key whose normalized text was seen before
RECURSIVE unique_keys_by_norm(_, _, _)
unique_keys_by_norm(rows, col, seen) ==
    IF rows = <<>> THEN <<>>
    ELSE LET v == Head(rows)[col]
         IN  IF v = NaN \/ NormOf[v] \in seen
             THEN unique_keys_by_norm(Tail(rows), col, seen)
             ELSE <<v>> \o unique_keys_by_norm(Tail(rows), col, seen \cup {NormOf[v]})

\* invoice_df[[key_col]].dropna().drop_duplicates(): the non-null key values,
\* each once, in the order of first occurrence
RECURSIVE unique_keys(_, _, _)
unique_keys(rows, col, seen) ==
    IF rows = <<>> THEN <<>>
    ELSE LET v == Head(rows)[col]
         IN  IF v = NaN \/ v \in seen
             THEN unique_keys(Tail(rows), col, seen)
             ELSE <<v>> \o unique_keys(Tail(rows), col, seen \cup {v})

\* invoice_df[[key_col, "product_line"]].dropna(): rows with both values present
pl_rows(inv, col) ==
    SelectSeq(inv.rows, LAMBDA r : r[col] # NaN /\ r["product_line"] # NaN)

\* d["product_line"].apply(normalize_text) hands normalize_text one str at a
\* time; it turns the str into a Series of its characters, so apply returns a
\* DataFrame with one column per character and assign(product_line=...) of a
\* frame that has not exactly one column raises.  Every product_line text
\* here has two or more characters, so it raises whenever a row is left.
apply_normalize_raises(d) == d # <<>>

\* the product_line column of items: the normalized key when the key is
\* product_line; otherwise, reached only when no row has both a key and a
\* product_line (or there is no such column), missing for every item
product_line_of(inv, col, key) ==
    IF col = "product_line" THEN NormOf[key] ELSE NoText

\* line 250: cat_fc
cat_fc_of(match_cat, score) == match_cat \in FC_CATEGORIES /\ score >= 60

\* variants of the fusion on line 251: without the category signal, with the
\* score as a veto, and with the comparison turned round
is_fc_no_cat(rule_fc, cat_fc, score, thr) == rule_fc \/ score >= thr

is_fc_veto(rule_fc, cat_fc, score, thr) == (rule_fc \/ cat_fc) /\ score >= thr

is_fc_below(rule_fc, cat_fc, score, thr) == rule_fc \/ cat_fc \/ score <= thr

\* a variant that carries the decision of the previous iteration over
is_fc_sticky(rule_fc, cat_fc, score, thr) ==
    \/ rule_fc \/ cat_fc \/ score >= thr
    \/ (out # <<>> /\ out[Len(out)].is_food_corner_auto)

\* line 251: is_fc
is_fc_of(rule_fc, cat_fc, score, thr) == rule_fc \/ cat_fc \/ score >= thr

\* the loop body: the record appended for one row r of items
map_item(r, can, choices, thr) ==
    LET nm  == r.product_norm
        pln == IF r.product_line # NoText THEN r.product_line ELSE <<>>
        rule_fc == RuleOf[pln]
        match == extractOne(nm, choices)
        found == Len(choices) > 0 /\ match.idx # 0
        score == IF found THEN match.score.n \div match.score.d ELSE 0
        best_item == IF found THEN can.rows[match.idx].menu_item ELSE NoItem
        match_cat == IF found THEN can.rows[match.idx].menu_category ELSE NoCat
        cat_fc == cat_fc_of(match_cat, score)
        is_fc == is_fc_of(rule_fc, cat_fc, score, thr)
    IN  [product_key_raw |-> r.product_key_raw,
         product_norm |-> nm,
         product_line |-> pln,
         best_match_item |-> best_item,
         match_category |-> match_cat,
         score |-> score,
         is_food_corner_auto |-> is_fc]

\* pd.DataFrame(out)[columns] with product_key_raw renamed to product_raw
output_frame(recs) ==
    [k \in 1..Len(recs) |->
        [product_raw |-> recs[k].product_key_raw,
         product_norm |-> recs[k].product_norm,
         product_line |-> recs[k].product_line,
         best_match_item |-> recs[k].best_match_item,
         match_category |-> recs[k].match_category,
         score |-> recs[k].score,
         is_food_corner_auto |-> recs[k].is_food_corner_auto]]

Raise(e) ==
    /\ outcome' = e
    /\ pc' = "done"

\* lines 186-193: canonical prep
CanonicalPrep ==
    /\ pc = "canonical_prep"
    /\ IF ~ canonical_ok(canonical_df)
       THEN /\ Raise("ValueError: Canonical must contain")
            /\ UNCHANGED can_items
       ELSE /\ can_items' = [k \in 1..Len(canonical_df.rows) |->
                                NormOf[canonical_df.rows[k].menu_item]]
            /\ pc' = "unique_items"
            /\ UNCHANGED outcome
    /\ UNCHANGED <<invoice_df, canonical_df, threshold, key_col, items, out, out_df,
                   prev, normVars, catVars, migVars>>

\* lines 195-223: unique invoice items and their product_line
UniqueItems ==
    /\ pc = "unique_items"
    /\ IF key_col \notin invoice_df.cols
       THEN /\ Raise("ValueError: key_col not found")
            /\ UNCHANGED items
       ELSE IF /\ key_col # "product_line"
               /\ "product_line" \in invoice_df.cols
               /\ apply_normalize_raises(pl_rows(invoice_df, key_col))
       THEN /\ Raise("ValueError: assign product_line")
            /\ UNCHANGED items
       ELSE /\ items' =
                 LET keys == unique_keys(invoice_df.rows, key_col, {})
                 IN  [k \in 1..Len(keys) |->
                        [product_key_raw |-> keys[k],
                         product_norm |-> NormOf[keys[k]],
                         product_line |-> product_line_of(invoice_df, key_col, keys[k])]]
            /\ pc' = "loop"
            /\ UNCHANGED outcome
    /\ UNCHANGED <<invoice_df, canonical_df, threshold, key_col, can_items, out, out_df,
                   prev, normVars, catVars, migVars>>

\* lines 227-261: one iteration of the per-item loop
MapItem ==
    /\ pc = "loop"
    /\ Len(out) < Len(items)
    /\ out' = Append(out, map_item(items[Len(out) + 1], canonical_df, can_items, threshold))
    /\ UNCHANGED <<invoice_df, canonical_df, threshold, key_col, pc, can_items, items,
                   out_df, outcome, prev, normVars, catVars, migVars>>

\* lines 263-268: the output frame; selecting the columns of a frame built
\* from an empty list raises KeyError
OutputFrame ==
    /\ pc = "loop"
    /\ Len(out) = Len(items)
    /\ IF out = <<>>
       THEN /\ Raise("KeyError: columns")
            /\ UNCHANGED out_df
       ELSE /\ out_df' = output_frame(out)
            /\ outcome' = "ok"
            /\ pc' = "done"
    /\ UNCHANGED <<invoice_df, canonical_df, threshold, key_col, can_items, items, out,
                   prev, normVars, catVars, migVars>>

\* the caller maps the same tables again with a higher threshold
RunAgain ==
    /\ pc = "done"
    /\ prev = NoRun
    /\ \E t \in Thresholds :
          /\ t > threshold
          /\ threshold' = t
    /\ prev' = [threshold |-> threshold, outcome |-> outcome, out_df |-> out_df]
    /\ pc' = "canonical_prep"
    /\ can_items' = <<>>
    /\ items' = <<>>
    /\ out' = <<>>
    /\ out_df' = NoTable
    /\ outcome' = "running"
    /\ UNCHANGED <<invoice_df, canonical_df, key_col, normVars, catVars, migVars>>

Init ==
    /\ invoice_df \in InvoiceTables
    /\ canonical_df \in CanonicalTables
    /\ threshold \in Thresholds
    /\ key_col \in {"product_line", "product_name"}
    /\ pc = "canonical_prep"
    /\ can_items = <<>>
    /\ items = <<>>
    /\ out = <<>>
    /\ out_df = NoTable
    /\ outcome = "running"
    /\ prev = NoRun
    /\ NormIdle
    /\ CatIdle
    /\ MigIdle

Next ==
    \/ CanonicalPrep
    \/ UniqueItems
    \/ MapItem
    \/ OutputFrame
    \/ RunAgain

Spec == Init /\ [][Next]_vars

-----------------------------------------------------------------------------
(* Normalization runs: normalize_text applied to a raw text, then to its   *)
(* own output                                                              *)

NormAlphabet == {"a", "B", "U+017B", "U+00F3", "U+20AC", "7", " ", "\t", "-", "+", "."}

Normalize ==
    /\ npass < 2
    /\ ntext' = normalize_text(ntext)
    /\ nhist' = Append(nhist, ntext')
    /\ npass' = npass + 1
    /\ UNCHANGED <<invoice_df, canonical_df, threshold, key_col, pc, can_items, items,
                   out, out_df, outcome, prev, catVars, migVars>>

InitNorm ==
    /\ ntext \in SeqsUpTo(NormAlphabet, MaxLen)
    /\ npass = 0
    /\ nhist = <<ntext>>
    /\ invoice_df = [cols |-> {}, rows |-> <<>>]
    /\ canonical_df = [cols |-> {}, rows |-> <<>>]
    /\ threshold = 70
    /\ key_col = "product_line"
    /\ pc = "done"
    /\ can_items = <<>>
    /\ items = <<>>
    /\ out = <<>>
    /\ out_df = NoTable
    /\ outcome = "none"
    /\ prev = NoRun
    /\ CatIdle
    /\ MigIdle

NextNorm == Normalize

SpecNorm == InitNorm /\ [][NextNorm]_vars

-----------------------------------------------------------------------------
(* Category runs: infer_super_cat and first_hit_category applied to a text  *)

\* raw words: Pizza, Pinsa, Hot Dog, Burger, Wrap, Panini, Tosty, Kanapka,
\* Zapiekanka, Sa(U+0142)atka, Frytki, Kawa, Pieczone, Woda
CategoryWords ==
    { <<"P","i","z","z","a">>,
      <<"P","i","n","s","a">>,
      <<"H","o","t"," ","D","o","g">>,
      <<"B","u","r","g","e","r">>,
      <<"W","r","a","p">>,
      <<"P","a","n","i","n","i">>,
      <<"T","o","s","t","y">>,
      <<"K","a","n","a","p","k","a">>,
      <<"Z","a","p","i","e","k","a","n","k","a">>,
      <<"S","a","U+0142","a","t","k","a">>,
      <<"F","r","y","t","k","i">>,
      <<"K","a","w","a">>,
      <<"P","i","e","c","z","o","n","e">>,
      <<"W","o","d","a">> }

RECURSIVE JoinWords(_)
JoinWords(ws) ==
    IF ws = <<>> THEN <<>>
    ELSE IF Len(ws) = 1 THEN ws[1]
    ELSE ws[1] \o <<" ">> \o JoinWords(Tail(ws))

MapIdle ==
    /\ invoice_df = [cols |-> {}, rows |-> <<>>]
    /\ canonical_df = [cols |-> {}, rows |-> <<>>]
    /\ threshold = 70
    /\ key_col = "product_line"
    /\ pc = "done"
    /\ can_items = <<>>
    /\ items = <<>>
    /\ out = <<>>
    /\ out_df = NoTable
    /\ outcome = "none"
    /\ prev = NoRun

InferCategory ==
    /\ cats = NoResult
    /\ cats' = [infer |-> infer_super_cat(ctext),
                pos   |-> first_hit_category(normalize_text(ctext), POS),
                allow |-> first_hit_category(normalize_text(ctext), LINES_ALLOW)]
    /\ UNCHANGED <<invoice_df, canonical_df, threshold, key_col, pc, can_items, items,
                   out, out_df, outcome, prev, ctext, normVars, migVars>>

InitCat ==
    /\ ctext \in {JoinWords(ws) : ws \in SeqsUpTo(CategoryWords, MaxWords)}
    /\ cats = NoResult
    /\ MapIdle
    /\ NormIdle
    /\ MigIdle

NextCat == InferCategory

SpecCat == InitCat /\ [][NextCat]_vars

-----------------------------------------------------------------------------
(* Line-keyed runs: map_fc_products with key_col = "product_line", and a   *)
(* second call on a table that differs in its other rows                   *)

LineTables ==
    {[cols |-> {"product_line"}, rows |-> r] :
        r \in SeqsUpTo([product_line : LineKeyValues], MaxRows)}

LineCatalogs ==
    {[cols |-> {"menu_item", "menu_category"}, rows |-> r] :
        r \in SeqsUpTo(LineCanonicalRows, MaxCan)}

Reverse(s) == [k \in 1..Len(s) |-> s[Len(s) + 1 - k]]

RemoveAt(s, i) == [k \in 1..(Len(s) - 1) |-> IF k < i THEN s[k] ELSE s[k + 1]]

\* the tables that differ from tbl by one removed row, one added row, or the
\* order of the rows
EditedTables(tbl) ==
    {[tbl EXCEPT !.rows = RemoveAt(tbl.rows, i)] : i \in 1..Len(tbl.rows)}
    \cup {[tbl EXCEPT !.rows = Reverse(tbl.rows)]}
    \cup (IF Len(tbl.rows) < MaxRows
          THEN {[tbl EXCEPT !.rows = Append(tbl.rows, [product_line |-> v])] :
                    v \in LineKeyValues}
          ELSE {})

\* the caller maps an edited table with the same catalog and threshold
RunEdited ==
    /\ pc = "done"
    /\ prev = NoRun
    /\ invoice_df' \in EditedTables(invoice_df)
    /\ prev' = [threshold |-> threshold, outcome |-> outcome, out_df |-> out_df]
    /\ pc' = "canonical_prep"
    /\ can_items' = <<>>
    /\ items' = <<>>
    /\ out' = <<>>
    /\ out_df' = NoTable
    /\ outcome' = "running"
    /\ UNCHANGED <<canonical_df, threshold, key_col, normVars, catVars, migVars>>

InitLine ==
    /\ invoice_df \in LineTables
    /\ canonical_df \in LineCatalogs
    /\ threshold = DefaultThreshold
    /\ key_col = "product_line"
    /\ pc = "canonical_prep"
    /\ can_items = <<>>
    /\ items = <<>>
    /\ out = <<>>
    /\ out_df = NoTable
    /\ outcome = "running"
    /\ prev = NoRun
    /\ NormIdle
    /\ CatIdle
    /\ MigIdle

NextLine ==
    \/ CanonicalPrep
    \/ UniqueItems
    \/ MapItem
    \/ OutputFrame
    \/ RunEdited

SpecLine == InitLine /\ [][NextLine]_vars

-----------------------------------------------------------------------------
(* Migration runs: run_migrations.main.  The module raises at import when  *)
(* NEON_DSN is unset, so main exists only with a DSN.                      *)

\* file names that db/migrations may hold
MigrationNames ==
    { <<"1",".","s","q","l">>,
      <<"1","0",".","s","q","l">>,
      <<"2",".","s","q","l">>,
      <<"B",".","s","q","l">>,
      <<"a",".","s","q","l">>,
      <<"n","o","t","e","s",".","t","x","t">> }

\* code-point order of the characters of a file name
FileCharOrder == <<"-", ".">> \o Digits \o UpperAscii \o <<"_">> \o LowerAscii

\* f1 < f2 for two paths of one directory: str comparison of the names
RECURSIVE NameLess(_, _)
NameLess(a, b) ==
    IF b = <<>> THEN FALSE
    ELSE IF a = <<>> THEN TRUE
    ELSE IF Head(a) = Head(b) THEN NameLess(Tail(a), Tail(b))
    ELSE IndexOf(FileCharOrder, Head(a)) < IndexOf(FileCharOrder, Head(b))

EndsWith(s, suffix) ==
    /\ Len(s) >= Len(suffix)
    /\ SubSeq(s, Len(s) - Len(suffix) + 1, Len(s)) = suffix

\* MIGRATIONS_DIR.glob("*.sql")
glob_sql(dir) == {f \in dir : EndsWith(f, <<".", "s", "q", "l">>)}

\* a variant that sorts in descending order
RECURSIVE sorted_desc(_)
sorted_desc(S) ==
    IF S = {} THEN <<>>
    ELSE LET mx == CHOOSE x \in S : \A y \in S \ {x} : NameLess(y, x)
         IN  <<mx>> \o sorted_desc(S \ {mx})

\* sorted(...)
RECURSIVE sorted(_)
sorted(S) ==
    IF S = {} THEN <<>>
    ELSE LET mn == CHOOSE x \in S : \A y \in S \ {x} : NameLess(x, y)
         IN  <<mn>> \o sorted(S \ {mn})

Line(msg, arg) == [msg |-> msg, arg |-> arg]

\* lines 14-18: list the files; none is an error raised before any connection
ListFiles ==
    /\ mig_pc = "start"
    /\ files' = sorted(glob_sql(mig_dir))
    /\ IF files' = <<>>
       THEN /\ mig_pc' = "RuntimeError: No migration files found"
            /\ UNCHANGED printed
       ELSE /\ printed' = Append(printed, Line("Found migrations", Len(files')))
            /\ mig_pc' = "connect"
    /\ UNCHANGED <<mig_dir, executed, committed, conn>>
    /\ UNCHANGED <<mapVars, normVars, catVars>>

\* lines 19-20: psycopg2.connect and conn.cursor; connect may raise
Connect ==
    /\ mig_pc = "connect"
    /\ \/ /\ conn' = "open"
          /\ mig_pc' = "loop"
       \/ /\ mig_pc' = "OperationalError: connect"
          /\ UNCHANGED conn
    /\ UNCHANGED <<mig_dir, files, executed, committed, printed>>
    /\ UNCHANGED <<mapVars, normVars, catVars>>

\* lines 23-25: read the next file, announce it and execute its SQL; a
\* failing statement leaves the transaction uncommitted
Execute ==
    /\ mig_pc = "loop"
    /\ Len(committed) < Len(files)
    /\ LET f == files[Len(committed) + 1]
       IN  /\ printed' = Append(printed, Line("Running migration", f))
           /\ \/ /\ executed' = Append(executed, f)
                 /\ mig_pc' = "commit"
              \/ /\ mig_pc' = "Error: execute"
                 /\ UNCHANGED executed
    /\ UNCHANGED <<mig_dir, files, committed, conn>>
    /\ UNCHANGED <<mapVars, normVars, catVars>>

\* line 26: conn.commit()
Commit ==
    /\ mig_pc = "commit"
    /\ \/ /\ committed' = committed \o executed
          /\ executed' = <<>>
          /\ mig_pc' = "loop"
       \/ /\ mig_pc' = "Error: commit"
          /\ UNCHANGED <<executed, committed>>
    /\ UNCHANGED <<mig_dir, files, printed, conn>>
    /\ UNCHANGED <<mapVars, normVars, catVars>>

\* lines 28-30: close and report success
Finish ==
    /\ mig_pc = "loop"
    /\ Len(committed) = Len(files)
    /\ conn' = "closed"
    /\ printed' = Append(printed, Line("All migrations applied successfully.", 0))
    /\ mig_pc' = "done"
    /\ UNCHANGED <<mig_dir, files, executed, committed>>
    /\ UNCHANGED <<mapVars, normVars, catVars>>

InitMig ==
    /\ mig_dir \in SUBSET MigrationNames
    /\ mig_pc = "start"
    /\ files = <<>>
    /\ executed = <<>>
    /\ committed = <<>>
    /\ printed = <<>>
    /\ conn = "none"
    /\ MapIdle
    /\ NormIdle
    /\ CatIdle

NextMig ==
    \/ ListFiles
    \/ Connect
    \/ Execute
    \/ Commit
    \/ Finish

SpecMig == InitMig /\ [][NextMig]_vars

-----------------------------------------------------------------------------
(* Properties *)

SchemaOk ==
    /\ {"menu_item", "menu_category"} \subseteq canonical_df.cols
    /\ key_col \in invoice_df.cols

\* the key values of the input that are not null
NonNullKeys == {invoice_df.rows[k][key_col] : k \in DOMAIN invoice_df.rows} \ {NaN}

\* C1 (deny precedence): every record whose product text matches a
\* frozen/packaged deny pattern, or whose product-line text matches a
\* line-deny pattern, is not FC, has score 0 and no best match.
C1_DenyPrecedence ==
    \A k \in DOMAIN out :
        (\/ hits_any(NEG_FROZEN_PACK, out[k].product_norm)
         \/ hits_any(LINES_DENY, out[k].product_line))
        => /\ ~ out[k].is_food_corner_auto
           /\ out[k].score = 0
           /\ out[k].best_match_item = NoItem

\* C2 (category gating): a record for which no category resolves (no
\* product-line allow hit, no product-name allow hit, infer_super_cat null)
\* is never FC.
C2_CategoryGating ==
    \A k \in DOMAIN out :
        (/\ first_hit_category(out[k].product_line, LINES_ALLOW) = NoCat
         /\ first_hit_category(out[k].product_norm, POS) = NoCat
         /\ infer_super_cat(out[k].product_key_raw) = NoCat)
        => ~ out[k].is_food_corner_auto

\* C3 (decision fusion): a record is FC exactly when its score reaches the
\* threshold, or the rule on its product line holds, or its matched category
\* is an FC category and its score is at least 60.
C3_DecisionFusion ==
    \A k \in DOMAIN out :
        out[k].is_food_corner_auto <=>
            \/ out[k].score >= threshold
            \/ RuleOf[out[k].product_line]
            \/ out[k].match_category \in FC_CATEGORIES /\ out[k].score >= 60

\* a record that is FC through the category signal alone
C3_Witness ==
    \E k \in DOMAIN out :
        /\ out[k].is_food_corner_auto
        /\ out[k].score < threshold
        /\ ~ RuleOf[out[k].product_line]

\* C4 (threshold monotonicity): of two runs on the same tables, the second
\* with the higher threshold, every row FC in the second is FC in the first,
\* a row with the rule or the category signal is FC in both, and all other
\* columns agree.
C4_ThresholdMonotone ==
    (pc = "done" /\ prev # NoRun /\ prev.outcome = "ok") =>
        /\ prev.threshold <= threshold
        /\ outcome = "ok"
        /\ Len(out_df) = Len(prev.out_df)
        /\ \A k \in DOMAIN out_df :
              LET lo == prev.out_df[k]
                  hi == out_df[k]
              IN  /\ hi.is_food_corner_auto => lo.is_food_corner_auto
                  /\ (\/ RuleOf[lo.product_line]
                      \/ lo.match_category \in FC_CATEGORIES /\ lo.score >= 60)
                     => lo.is_food_corner_auto /\ hi.is_food_corner_auto
                  /\ hi.product_raw = lo.product_raw
                  /\ hi.product_norm = lo.product_norm
                  /\ hi.product_line = lo.product_line
                  /\ hi.best_match_item = lo.best_match_item
                  /\ hi.match_category = lo.match_category
                  /\ hi.score = lo.score

\* two finished runs in which raising the threshold turned one row to not FC
\* and left another, carried by the rule signal, FC
C4_Witness ==
    /\ pc = "done"
    /\ prev # NoRun
    /\ prev.outcome = "ok"
    /\ outcome = "ok"
    /\ \E k \in DOMAIN out_df :
          prev.out_df[k].is_food_corner_auto /\ ~ out_df[k].is_food_corner_auto
    /\ \E k \in DOMAIN out_df :
          /\ RuleOf[out_df[k].product_line]
          /\ out_df[k].score < threshold
          /\ out_df[k].is_food_corner_auto

\* C5 (uniqueness): whenever both tables have their columns, the call returns
\* a table with exactly one row per distinct non-null key value.
C5_Uniqueness ==
    (pc = "done" /\ SchemaOk) =>
        /\ outcome = "ok"
        /\ Len(out_df) = Cardinality(NonNullKeys)
        /\ {out_df[k].product_raw : k \in DOMAIN out_df} = NonNullKeys

\* C6 (schema error): a table without its required columns ends the call in
\* an error with no item classified and no table returned; the canonical
\* error is the one raised when both tables are defective.
C6_SchemaError ==
    /\ ~ SchemaOk => (items = <<>> /\ out = <<>> /\ out_df = NoTable)
    /\ (pc = "done" /\ ~ ({"menu_item", "menu_category"} \subseteq canonical_df.cols))
          => outcome = "ValueError: Canonical must contain"
    /\ (/\ pc = "done"
        /\ {"menu_item", "menu_category"} \subseteq canonical_df.cols
        /\ key_col \notin invoice_df.cols)
          => outcome = "ValueError: key_col not found"

\* both tables defective, the call has ended on the canonical error
C6_Witness ==
    /\ pc = "done"
    /\ ~ ({"menu_item", "menu_category"} \subseteq canonical_df.cols)
    /\ key_col \notin invoice_df.cols
    /\ invoice_df.rows # <<>>
    /\ outcome = "ValueError: Canonical must contain"

WellFormed(t) ==
    /\ \A k \in DOMAIN t :
          t[k] \in Range(LowerAscii) \cup Range(Digits) \cup {" ", "-", "+"}
    /\ \A k \in 1..(Len(t) - 1) : ~ (t[k] = " " /\ t[k+1] = " ")
    /\ t # <<>> => (t[1] # " " /\ t[Len(t)] # " ")

\* C8 (idempotence): normalize_text of an output of normalize_text is that
\* output, and every output has only characters of [a-z0-9 +-], no two
\* spaces in a row and no space at either end.
C8_NormalizeIdempotent ==
    /\ npass >= 1 => WellFormed(ntext)
    /\ npass = 2 => nhist[3] = nhist[2]

\* "B<tab>(U+00F3)" normalized twice: "b o" both times
C8_Witness ==
    /\ npass = 2
    /\ nhist[1] = <<"B", "\t", "U+00F3">>
    /\ nhist[2] = <<"b", " ", "o">>
    /\ nhist[3] = <<"b", " ", "o">>

\* the exact scores of one product text against every canonical row
RowScores(nm) ==
    [j \in DOMAIN canonical_df.rows |->
        ScoreOf[<<nm, NormOf[canonical_df.rows[j].menu_item]>>]]

IsMaxRow(scores, j) == \A n \in DOMAIN scores : ~ ScoreLess(scores[j], scores[n])

\* C10 (tie-break): with a catalog that has rows, the best match, its
\* category and the score of a record are those of the first catalog row
\* that reaches the highest score.
C10_FirstMaxWins ==
    ({"menu_item", "menu_category"} \subseteq canonical_df.cols /\ canonical_df.rows # <<>>) =>
        \A k \in DOMAIN out :
            LET scores == RowScores(out[k].product_norm)
                j == CHOOSE n \in DOMAIN scores :
                        /\ IsMaxRow(scores, n)
                        /\ \A i \in 1..(n-1) : ~ IsMaxRow(scores, i)
            IN  /\ out[k].best_match_item = canonical_df.rows[j].menu_item
                /\ out[k].match_category = canonical_df.rows[j].menu_category
                /\ out[k].score = scores[j].n \div scores[j].d

\* a record for which two different catalog rows reach the highest score
C10_Witness ==
    /\ {"menu_item", "menu_category"} \subseteq canonical_df.cols
    /\ \E k \in DOMAIN out :
          LET scores == RowScores(out[k].product_norm)
          IN  \E i, j \in DOMAIN scores :
                 /\ i < j
                 /\ IsMaxRow(scores, i)
                 /\ IsMaxRow(scores, j)
                 /\ canonical_df.rows[i] # canonical_df.rows[j]
                 /\ out[k].best_match_item = canonical_df.rows[i].menu_item


\* the category order the claims name
CategoryOrder ==
    <<"Pizza", "Hot Dog", "Burger", "Wrap", "Panini", "Tosty", "Kanapki",
      "Zapiekanka", "Sa(U+0142)atki", "Frytki/Box", "Kawa">>

CatMatches(tbl, c, t) == \E n \in DOMAIN tbl : tbl[n].cat = c /\ hits_any(tbl[n].pats, t)

\* res is the first category of CategoryOrder with a pattern of tbl matching
\* t, or null when there is none
FirstInOrder(tbl, t, res) ==
    IF \E k \in DOMAIN CategoryOrder : CatMatches(tbl, CategoryOrder[k], t)
    THEN \E k \in DOMAIN CategoryOrder :
            /\ res = CategoryOrder[k]
            /\ CatMatches(tbl, res, t)
            /\ \A j \in 1..(k-1) : ~ CatMatches(tbl, CategoryOrder[j], t)
    ELSE res = NoCat

\* C11 (category priority): infer_super_cat returns the first category, in
\* the order Pizza, Hot Dog, Burger, Wrap, Panini, Tosty, Kanapki,
\* Zapiekanka, Salatki, Frytki/Box, Kawa, whose pattern matches the
\* normalized text, null when none does; first_hit_category over POS and
\* over LINES_ALLOW resolves overlaps in the same order.
C11_CategoryPriority ==
    cats # NoResult =>
        LET t == normalize_text(ctext)
        IN  /\ FirstInOrder(INFER_CHAIN, t, cats.infer)
            /\ FirstInOrder(POS, t, cats.pos)
            /\ FirstInOrder(LINES_ALLOW, t, cats.allow)
            /\ cats.infer = "Kawa" =>
                  \A k \in 1..10 : ~ CatMatches(INFER_CHAIN, CategoryOrder[k], t)

\* "Kawa Pizza" goes to Pizza in all three
C11_Witness ==
    /\ ctext = <<"K","a","w","a"," ","P","i","z","z","a">>
    /\ cats = [infer |-> "Pizza", pos |-> "Pizza", allow |-> "Pizza"]


\* C12 (coffee brand negative): a candidate whose text resolves to the
\* category Kawa and also matches a NEG_COFFEE pattern is classified not FC
\* with score 0.
C12_CoffeeNegative ==
    \A k \in DOMAIN out :
        (/\ infer_super_cat(out[k].product_key_raw) = "Kawa"
         /\ hits_any(NEG_COFFEE, out[k].product_norm))
        => (~ out[k].is_food_corner_auto /\ out[k].score = 0)

\* C13 (per-candidate independence): with key_col = product_line, a key that
\* occurs in two tables mapped with the same catalog and threshold gets the
\* same record in both outputs, whatever the other rows are.
C13_Independence ==
    (/\ pc = "done" /\ outcome = "ok"
     /\ prev # NoRun /\ prev.outcome = "ok"
     /\ key_col = "product_line")
    => \A i \in DOMAIN prev.out_df : \A j \in DOMAIN out_df :
          prev.out_df[i].product_raw = out_df[j].product_raw
             => prev.out_df[i] = out_df[j]

\* a key keeps its record while the rows around it change: it was second of
\* two rows and is now alone
C13_Witness ==
    /\ pc = "done" /\ outcome = "ok"
    /\ prev # NoRun /\ prev.outcome = "ok"
    /\ Len(prev.out_df) = 2 /\ Len(out_df) = 1
    /\ prev.out_df[2].product_raw = RAW_MONSTER_ESPRESSO
    /\ out_df[1] = prev.out_df[2]
    /\ prev.out_df[1].is_food_corner_auto
    /\ ~ out_df[1].is_food_corner_auto

\* C15 (a match whenever the catalog has a row): with one catalog row or
\* more every record has a best_match_item and a match_category, at score 0
\* and for a blank text too; both are null exactly when the catalog is empty.
C15_MatchPresence ==
    \A k \in DOMAIN out :
        IF Len(canonical_df.rows) > 0
        THEN /\ out[k].best_match_item \in {r.menu_item : r \in Range(canonical_df.rows)}
             /\ out[k].match_category \in {r.menu_category : r \in Range(canonical_df.rows)}
             /\ out[k].best_match_item # NoItem
             /\ out[k].match_category # NoCat
        ELSE /\ out[k].best_match_item = NoItem
             /\ out[k].match_category = NoCat
             /\ out[k].score = 0

\* a record with score 0 that has a best match and is FC through the rule,
\* next to one for a blank text with a best match
C15_Witness ==
    /\ pc = "done" /\ outcome = "ok"
    /\ \E k \in DOMAIN out :
          /\ out[k].score = 0
          /\ out[k].best_match_item = RAW_KAWA
          /\ out[k].is_food_corner_auto
    /\ \E k \in DOMAIN out :
          /\ out[k].product_norm = <<>>
          /\ out[k].score = 0
          /\ out[k].best_match_item = RAW_KAWA

FirstIndex(rows, v) == CHOOSE i \in DOMAIN rows : rows[i].product_line = v /\
                          \A j \in 1..(i-1) : rows[j].product_line # v

\* C16 (deduplication on the raw key): with key_col = product_line the
\* output has one row per distinct non-null raw key, in the order of first
\* occurrence; two raw keys with one normalized form give two rows that
\* agree on every field but product_raw.
C16_RawKeyDedup ==
    (pc = "done" /\ outcome = "ok" /\ key_col = "product_line")
    => /\ {out_df[k].product_raw : k \in DOMAIN out_df}
            = {r.product_line : r \in Range(invoice_df.rows)} \ {NaN}
       /\ \A i \in DOMAIN out_df : \A j \in DOMAIN out_df :
            /\ i < j => FirstIndex(invoice_df.rows, out_df[i].product_raw)
                           < FirstIndex(invoice_df.rows, out_df[j].product_raw)
            /\ out_df[i].product_norm = out_df[j].product_norm
                 => [out_df[i] EXCEPT !.product_raw = NaN]
                       = [out_df[j] EXCEPT !.product_raw = NaN]

\* "BURGER" then "Burger": two rows, in that order, with one normalized form
C16_Witness ==
    /\ pc = "done" /\ outcome = "ok"
    /\ Len(out_df) = 2
    /\ out_df[1].product_raw = RAW_BURGER_UPPER
    /\ out_df[2].product_raw = RAW_BURGER
    /\ out_df[1].product_norm = out_df[2].product_norm


\* the normalized product_line values of the rows that carry key, nulls left out
VotesFor(key) ==
    LET d == SelectSeq(pl_rows(invoice_df, key_col), LAMBDA r : r[key_col] = key)
    IN  [k \in 1..Len(d) |-> NormOf[d[k]["product_line"]]]

VoteCount(votes, v) == Cardinality({i \in DOMAIN votes : votes[i] = v})

\* C14 (secondary grouping value by majority vote): when key_col is not
\* product_line and the table has a product_line column, the call returns a
\* table in which each record carries the most frequent normalized
\* product_line of the rows with its key; a key with no such row, or a table
\* without the column, gives an empty product_line and no rule signal.
C14_MajorityVote ==
    (/\ pc = "done"
     /\ key_col # "product_line"
     /\ key_col \in invoice_df.cols
     /\ canonical_ok(canonical_df)
     /\ unique_keys(invoice_df.rows, key_col, {}) # <<>>)
    => /\ outcome = "ok"
       /\ \A k \in DOMAIN out_df :
            LET rec == out_df[k]
                votes == IF "product_line" \in invoice_df.cols
                         THEN VotesFor(rec.product_raw) ELSE <<>>
            IN  IF votes = <<>>
                THEN /\ rec.product_line = <<>>
                     /\ rec.is_food_corner_auto
                          = (cat_fc_of(rec.match_category, rec.score) \/ rec.score >= threshold)
                ELSE /\ rec.product_line \in Range(votes)
                     /\ \A v \in Range(votes) :
                          VoteCount(votes, v) <= VoteCount(votes, rec.product_line)


SqlFiles == {f \in mig_dir : EndsWith(f, <<".", "s", "q", "l">>)}

\* the migration files that come before f in file-name order
Before(f) == {g \in SqlFiles : NameLess(g, f)}

Success == Line("All migrations applied successfully.", 0)

\* C17 (migration order and commit points): migrations are committed in
\* ascending file-name order, each once, one commit per migration; when
\* executing migration k fails, exactly the migrations before k are
\* committed and the success message is not printed; with no migration file
\* main fails before a connection is opened.
C17_MigrationOrder ==
    /\ \A k \in DOMAIN committed :
          /\ committed[k] \in SqlFiles
          /\ {committed[i] : i \in 1..(k-1)} = Before(committed[k])
    /\ Len(executed) <= 1
    /\ \A f \in Range(executed) : f \in SqlFiles /\ Range(committed) = Before(f)
    /\ mig_pc = "loop" => executed = <<>>
    /\ mig_pc = "Error: execute" =>
          LET f == printed[Len(printed)].arg
          IN  /\ printed[Len(printed)].msg = "Running migration"
              /\ f \in SqlFiles
              /\ Range(committed) = Before(f)
              /\ executed = <<>>
    /\ (Success \in Range(printed)) <=> (mig_pc = "done")
    /\ mig_pc = "done" => (Range(committed) = SqlFiles /\ SqlFiles # {})
    /\ (SqlFiles = {} /\ mig_pc # "start") =>
          /\ mig_pc = "RuntimeError: No migration files found"
          /\ conn = "none"
          /\ printed = <<>>
    /\ conn # "none" => SqlFiles # {}

\* "2.sql" fails after "1.sql" and "10.sql" were committed, in that order
C17_Witness ==
    /\ mig_pc = "Error: execute"
    /\ committed = << <<"1",".","s","q","l">>, <<"1","0",".","s","q","l">> >>
    /\ printed[Len(printed)] = Line("Running migration", <<"2",".","s","q","l">>)
    /\ Success \notin Range(printed)

====
